---- MODULE Spec2Model ----
(***************************************************************************)
(* Model of PostgreSQLDataLoader (src/src/postgresql_dataloader.py): one   *)
(* adapter instance talking to one PostgreSQL store over a psycopg2        *)
(* connection (autocommit off, READ COMMITTED, transactional DDL).         *)
(*                                                                         *)
(* Every public method is one action that runs the whole method: the       *)
(* statements it sends, its commit or rollback, and its return value.      *)
(* Store faults are inputs of the call: a fault [kind, at] makes the       *)
(* at-th round trip of the call fail, either because the store rejects it  *)
(* ("error") or because the connection is lost before the request reaches  *)
(* the server ("lost").                                                    *)
(***************************************************************************)
EXTENDS Integers, Sequences, FiniteSets, TLC

\* ---------------------------------------------------------------- bounds
MaxRows == 3        \* most rows a table holds in the model
MaxBatch == 2       \* batch_size ranges over 1..MaxBatch
MaxLimit == 1       \* limit ranges over 0..MaxLimit (0 stands for None)
MaxFaultAt == 2     \* a fault hits one of the first MaxFaultAt round trips
MaxLeaked == 1      \* most unreferenced open connections tracked
MaxParts == 3       \* a dtype string is made of 1..MaxParts fragments

\* ------------------------------------------------------------ DataFrames
\* dtype strings (str(dtype)) as character sequences, so that "in" is a
\* real substring test.
S_int64 == <<"i", "n", "t", "6", "4">>
S_object == <<"o", "b", "j", "e", "c", "t">>
S_float64 == <<"f", "l", "o", "a", "t", "6", "4">>
S_bool == <<"b", "o", "o", "l">>
S_datetime64 == <<"d", "a", "t", "e", "t", "i", "m", "e", "6", "4", "[", "n", "s", "]">>

\* 'sub in s' of Python on strings
Contains(s, sub) ==
    \E i \in 0..(Len(s) - Len(sub)) :
        \A j \in 1..Len(sub) : s[i + j] = sub[j]

\* as if 'date' were tested before 'datetime'
MapDtypeDateFirst(dtype) ==
    IF Contains(dtype, <<"i", "n", "t">>) THEN "INTEGER"
    ELSE IF Contains(dtype, <<"f", "l", "o", "a", "t">>) THEN "DOUBLE PRECISION"
    ELSE IF Contains(dtype, <<"b", "o", "o", "l">>) THEN "BOOLEAN"
    ELSE IF Contains(dtype, <<"d", "a", "t", "e">>) THEN "DATE"
    ELSE IF Contains(dtype, <<"d", "a", "t", "e", "t", "i", "m", "e">>) THEN "TIMESTAMP"
    ELSE "TEXT"

\* _map_dtype_to_postgres
MapDtypeToPostgres(dtype) ==
    IF Contains(dtype, <<"i", "n", "t">>) THEN "INTEGER"
    ELSE IF Contains(dtype, <<"f", "l", "o", "a", "t">>) THEN "DOUBLE PRECISION"
    ELSE IF Contains(dtype, <<"b", "o", "o", "l">>) THEN "BOOLEAN"
    ELSE IF Contains(dtype, <<"d", "a", "t", "e", "t", "i", "m", "e">>) THEN "TIMESTAMP"
    ELSE IF Contains(dtype, <<"d", "a", "t", "e">>) THEN "DATE"
    ELSE "TEXT"

\* The DataFrames the calls draw from.  columns: ordered column names;
\* dtypes: str(dtype) per column; rows: the values, one tuple per index
\* entry, aligned with columns.
DataFrameNames == {"users", "three", "wide", "norows", "nocols"}

DF(name) ==
    CASE name = "users" ->
           [columns |-> <<"id", "name">>, dtypes |-> <<S_int64, S_object>>,
            rows |-> << <<"1", "A">>, <<"2", "B">> >>]
      [] name = "three" ->
           [columns |-> <<"id", "name">>, dtypes |-> <<S_int64, S_object>>,
            rows |-> << <<"1", "A">>, <<"2", "B">>, <<"1", "C">> >>]
      [] name = "wide" ->
           [columns |-> <<"name", "extra", "id">>,
            dtypes |-> <<S_object, S_float64, S_int64>>,
            rows |-> << <<"C", "x", "3">> >>]
      [] name = "norows" ->
           [columns |-> <<"id", "name">>, dtypes |-> <<S_int64, S_object>>,
            rows |-> << >>]
      [] name = "nocols" ->
           [columns |-> << >>, dtypes |-> << >>,
            rows |-> << << >>, << >> >>]

\* create_table_from_dataframe reads df.dtypes only (and df.empty for a
\* warning), so DataFrames with the same columns and dtypes are one input
\* to it: one DataFrame per schema.
SchemaFrames == {"users", "wide", "nocols"}
SameSchema(df1, df2) == df1.columns = df2.columns /\ df1.dtypes = df2.dtypes

\* len(df): the length of the index
DfLen(df) == Len(df.rows)

DfEmptyNever(df) == FALSE

\* df.empty: True when any axis has length 0
DfEmpty(df) == Len(df.rows) = 0 \/ Len(df.columns) = 0

SeqToSet(s) == {s[i] : i \in 1..Len(s)}

IndexOf(s, x) == CHOOSE i \in 1..Len(s) : s[i] = x

\* ----------------------------------------------------------------- store
\* the tables the store can hold
TableNames == {"t1"}
\* table_name arguments of create_table_from_dataframe
CreateArgs == TableNames \cup {""}
\* table_name arguments of the other operations: "ghost" is a name no
\* table ever has
NameArgs == TableNames \cup {"ghost", ""}

Absent == [exists |-> FALSE, columns |-> << >>, pk |-> "", rows |-> << >>]

\* the table CREATE TABLE builds from df.dtypes.items() and primary_key
NewTable(df, primary_key) ==
    [exists |-> TRUE,
     columns |-> [i \in 1..Len(df.columns) |->
                    [name |-> df.columns[i],
                     type |-> MapDtypeToPostgres(df.dtypes[i]),
                     nullable |-> ~(primary_key # "" /\ df.columns[i] = primary_key)]],
     pk |-> IF primary_key # "" /\ primary_key \in SeqToSet(df.columns)
            THEN primary_key ELSE "",
     rows |-> << >>]

\* information_schema.columns of a table, ORDER BY ordinal_position
ColumnNames(t) == [i \in 1..Len(t.columns) |-> t.columns[i].name]

\* the values of the primary key column in a sequence of stored rows
KeyValues(t, rows) ==
    LET k == IndexOf(ColumnNames(t), t.pk)
    IN  [i \in 1..Len(rows) |-> rows[i][k]]

NoDuplicates(s) == \A i, j \in 1..Len(s) : s[i] = s[j] => i = j

\* whether the store accepts INSERT of rows into t (unique primary key)
InsertAccepted(t, rows) ==
    /\ t.exists
    /\ t.pk # "" => NoDuplicates(KeyValues(t, t.rows \o rows))

\* the catalog entry of a name (any string)
Lookup(tables, name) == IF name \in TableNames THEN tables[name] ELSE Absent

\* the effect of one statement on the tables the transaction sees:
\* [ok, work, rowcount]
Stmt(kind, table, arg) == [kind |-> kind, table |-> table, arg |-> arg]

StmtEffect(stmt, work) ==
    LET t == Lookup(work, stmt.table)
        same == [ok |-> TRUE, work |-> work, rowcount |-> -1]
        fails == [ok |-> FALSE, work |-> work, rowcount |-> -1]
    IN  CASE stmt.kind \in {"DROP TABLE IF EXISTS CASCADE", "DROP TABLE IF EXISTS RESTRICT"} ->
               IF t.exists
               THEN [same EXCEPT !.work = [work EXCEPT ![stmt.table] = Absent]]
               ELSE same
          [] stmt.kind = "CREATE TABLE" ->
               IF t.exists THEN fails
               ELSE [same EXCEPT !.work = [work EXCEPT ![stmt.table] = stmt.arg]]
          [] stmt.kind = "CREATE TABLE IF NOT EXISTS" ->
               IF t.exists THEN same
               ELSE [same EXCEPT !.work = [work EXCEPT ![stmt.table] = stmt.arg]]
          [] stmt.kind = "INSERT" ->
               IF InsertAccepted(t, stmt.arg)
               THEN [ok |-> TRUE,
                     work |-> [work EXCEPT ![stmt.table].rows = @ \o stmt.arg],
                     rowcount |-> Len(stmt.arg)]
               ELSE fails
          [] stmt.kind = "TRUNCATE" ->
               IF t.exists
               THEN [same EXCEPT !.work = [work EXCEPT ![stmt.table].rows = << >>]]
               ELSE fails
          [] stmt.kind \in {"SELECT COUNT", "SELECT *"} ->
               IF t.exists THEN [same EXCEPT !.rowcount = 1] ELSE fails
          [] OTHER -> same   \* catalog queries (information_schema)

\* ------------------------------------------------------- psycopg2 session
NoFault == [kind |-> "none", at |-> 0]
\* the store rejects the at-th round trip of the call
StatementFaults == {NoFault} \cup [kind : {"error"}, at : 1..MaxFaultAt]
\* ... or the connection is lost before the at-th round trip
Faults == StatementFaults \cup [kind : {"lost"}, at : 1..MaxFaultAt]

\* the state of a call in progress: the committed tables, the tables the
\* open transaction sees, the transaction status of the connection, whether
\* an exception has been raised ("error": the store rejected a statement,
\* "lost": the connection broke), the statements sent, cursor.rowcount.
Begin(committed, tx) ==
    [committed |-> committed, work |-> committed, tx |-> tx,
     status |-> "ok", sent |-> << >>, rowcount |-> -1]

\* conn.commit()
CommitStep(ss, f) ==
    LET k == Len(ss.sent) + 1
        s == [ss EXCEPT !.sent = Append(@, "COMMIT")]
    IN  IF ss.status # "ok" THEN ss
        ELSE IF f.at = k /\ f.kind = "lost" THEN [s EXCEPT !.status = "lost"]
        ELSE IF f.at = k /\ f.kind = "error"
             THEN [s EXCEPT !.status = "error", !.work = ss.committed, !.tx = "idle"]
        ELSE IF ss.tx = "aborted"
             THEN [s EXCEPT !.work = ss.committed, !.tx = "idle"]
        ELSE [s EXCEPT !.committed = ss.work, !.tx = "idle"]

\* cur.execute(statement): the first statement opens a transaction; a
\* rejected statement aborts it; in an aborted transaction every statement
\* is rejected (InFailedSqlTransaction) until a rollback.
Execute(ss, stmt, f) ==
    LET k == Len(ss.sent) + 1
        s == [ss EXCEPT !.sent = Append(@, stmt.kind)]
        eff == StmtEffect(stmt, ss.work)
    IN  IF ss.status # "ok" THEN ss
        ELSE IF f.at = k /\ f.kind = "lost" THEN [s EXCEPT !.status = "lost"]
        ELSE IF ss.tx = "aborted" THEN [s EXCEPT !.status = "error"]
        ELSE IF (f.at = k /\ f.kind = "error") \/ ~eff.ok
             THEN [s EXCEPT !.status = "error", !.tx = "aborted"]
        ELSE [s EXCEPT !.work = eff.work, !.tx = "intrans", !.rowcount = eff.rowcount]

RECURSIVE ExecuteAll(_, _, _)
ExecuteAll(ss, stmts, f) ==
    IF stmts = << >> THEN ss
    ELSE ExecuteAll(Execute(ss, Head(stmts), f), Tail(stmts), f)

\* ------------------------------------------------------------------ state
VARIABLES
    db,          \* the committed tables of the store: name -> table
    connection,  \* self.connection: "None", "open", or "closed" (an object
                 \* whose .closed is set because the connection broke)
    txn,         \* transaction status of self.connection: idle/intrans/aborted
    reachable,   \* whether the store accepts new connections
    leaked,      \* open connections the adapter no longer references
    unreleased,  \* open connections of the loaders of module-level
                 \* functions that have returned
    last,        \* the last call: arguments, statements sent, return value
    pre,         \* db before the last call
    dropped,     \* tables dropped by a successful drop_table and not created
                 \* again by a successful create_table_from_dataframe
    dtype_str,   \* str(dtype), the argument of _map_dtype_to_postgres
    pg_type      \* its return value ("" before the call)

vars == <<db, connection, txn, reachable, leaked, unreleased, last, pre, dropped,
         dtype_str, pg_type>>

\* return values: True, False, None, an int, a DataFrame (n rows), an info
\* dict (n = row_count), a list (n entries), or an exception that escaped
Result(tag, n) == [tag |-> tag, n |-> n]
RTrue == Result("True", 0)
RFalse == Result("False", 0)
RNone == Result("None", 0)
RRaised == Result("raised", 0)

NoRoundTrip == [stage |-> 0, df |-> ""]
NoBefore == [set |-> FALSE, columns |-> << >>, nrows |-> 0]

NoCall ==
    [op |-> "", df |-> "", table |-> "", policy |-> "",
     result |-> RNone, exc |-> "none", fault |-> "none", sent |-> << >>,
     connected |-> FALSE, info |-> << >>, before |-> NoBefore,
     rt |-> NoRoundTrip]

Init ==
    /\ db = [t \in TableNames |-> Absent]
    /\ connection = "None"
    /\ txn = "idle"
    /\ reachable = TRUE
    /\ leaked = 0
    /\ unreleased = 0
    /\ last = NoCall
    /\ pre = [t \in TableNames |-> Absent]
    /\ dropped = {}
    /\ dtype_str = << >>
    /\ pg_type = ""

\* --------------------------------------------------- connection lifecycle
\* as if get_connection connected on every call
NeedsConnectAlways == TRUE

\* get_connection: whether it has to call connect()
NeedsConnect == connection \in {"None", "closed"}

\* the session an operation works on once get_connection has returned
Session == Begin(db, IF connection = "open" THEN txn ELSE "idle")

\* the outcome of a call that returns before get_connection
Untouched(r) ==
    [result |-> r, db |-> db, tx |-> txn, conn |-> connection, exc |-> "none",
     fault |-> "none", sent |-> << >>, connected |-> FALSE]

\* get_connection raised ConnectionError: conn is None in the handler, so
\* no rollback; self.connection is whatever it was
ConnectFailed(r) ==
    [result |-> r, db |-> db, tx |-> txn, conn |-> connection, exc |-> "connect",
     fault |-> "none", sent |-> << >>, connected |-> TRUE]

\* the fault that hit the call, if any
FaultHit(ss, f) ==
    IF ss.status # "ok" /\ f.at = Len(ss.sent)
       /\ (ss.status = "lost" <=> f.kind = "lost")
    THEN f.kind ELSE "none"

\* as if a failed call kept what its statements had changed
ReturnedNoRollback(ss, f, ok, failed, rollback) ==
    [result |-> CASE ss.status = "ok" -> ok
                  [] ss.status = "error" -> failed
                  [] ss.status = "lost" ->
                       IF rollback = "handler" THEN RRaised ELSE failed,
     db |-> ss.work,
     tx |-> CASE ss.status = "lost" -> "idle"
              [] ss.status = "error" /\ rollback # "nobody" -> "idle"
              [] OTHER -> ss.tx,
     conn |-> IF ss.status = "lost" THEN "closed" ELSE "open",
     exc |-> IF ss.status = "ok" THEN "none" ELSE ss.status,
     fault |-> FaultHit(ss, f),
     sent |-> ss.sent,
     connected |-> NeedsConnect]

\* The outcome of a call whose try block ended in state ss.  rollback says
\* who rolls back when a statement raised: "handler" (the except clause
\* calls conn.rollback(); on a broken connection that call raises and the
\* exception escapes the method), "pandas" (read_sql_query rolls back
\* before re-raising, inside the method's try), or "nobody".
Returned(ss, f, ok, failed, rollback) ==
    [result |-> CASE ss.status = "ok" -> ok
                  [] ss.status = "error" -> failed
                  [] ss.status = "lost" ->
                       IF rollback = "handler" THEN RRaised ELSE failed,
     db |-> ss.committed,
     tx |-> CASE ss.status = "lost" -> "idle"
              [] ss.status = "error" /\ rollback # "nobody" -> "idle"
              [] OTHER -> ss.tx,
     conn |-> IF ss.status = "lost" THEN "closed" ELSE "open",
     exc |-> IF ss.status = "ok" THEN "none" ELSE ss.status,
     fault |-> FaultHit(ss, f),
     sent |-> ss.sent,
     connected |-> NeedsConnect]

\* ------------------------------------------------------------- operations
TableFoundNever(ss, table_name) == FALSE

\* cur.fetchone()[0] of the SELECT EXISTS query
TableFound(ss, table_name) == Lookup(ss.work, table_name).exists

\* create_table_from_dataframe(df, table_name, primary_key, if_exists)
CreateTableOutcome(df, table_name, primary_key, if_exists, f) ==
    LET s1 == IF if_exists = "replace"
              THEN Execute(Session, Stmt("DROP TABLE IF EXISTS CASCADE", table_name, << >>), f)
              ELSE IF if_exists = "fail"
              THEN Execute(Session, Stmt("SELECT EXISTS", table_name, << >>), f)
              ELSE Session
        create_clause == IF if_exists = "skip" THEN "CREATE TABLE IF NOT EXISTS"
                         ELSE "CREATE TABLE"
        s2 == Execute(s1, Stmt(create_clause, table_name, NewTable(df, primary_key)), f)
        s3 == CommitStep(s2, f)
    IN  IF table_name = "" THEN Untouched(RFalse)
        ELSE IF NeedsConnect /\ ~reachable THEN ConnectFailed(RFalse)
        ELSE IF if_exists = "fail" /\ s1.status = "ok" /\ TableFound(s1, table_name)
        THEN Returned(s1, f, RFalse, RFalse, "handler")
        ELSE Returned(s3, f, RTrue, RFalse, "handler")

\* as if the rows were taken in the DataFrame's own column order
ProjectByPosition(df, db_columns) ==
    [r \in 1..Len(df.rows) |->
        [c \in 1..Len(db_columns) |-> df.rows[r][c]]]

\* df[db_columns].values.tolist()
Project(df, db_columns) ==
    [r \in 1..Len(df.rows) |->
        [c \in 1..Len(db_columns) |-> df.rows[r][IndexOf(df.columns, db_columns[c])]]]

RECURSIVE PagesDropRemainder(_, _)
PagesDropRemainder(rows, page_size) ==
    IF Len(rows) < page_size THEN << >>
    ELSE <<SubSeq(rows, 1, page_size)>>
         \o PagesDropRemainder(SubSeq(rows, page_size + 1, Len(rows)), page_size)

\* the pages execute_values cuts the rows into
RECURSIVE Pages(_, _)
Pages(rows, page_size) ==
    IF Len(rows) = 0 THEN << >>
    ELSE IF Len(rows) <= page_size THEN <<rows>>
    ELSE <<SubSeq(rows, 1, page_size)>>
         \o Pages(SubSeq(rows, page_size + 1, Len(rows)), page_size)

\* as if each page were committed when sent
RECURSIVE ExecuteAllAutocommit(_, _, _)
ExecuteAllAutocommit(ss, stmts, f) ==
    IF stmts = << >> THEN ss
    ELSE LET s == Execute(ss, Head(stmts), f)
         IN  ExecuteAllAutocommit(IF s.status = "ok" THEN [s EXCEPT !.committed = s.work]
                                  ELSE s, Tail(stmts), f)

ExecuteValuesAutocommit(ss, table_name, data_values, page_size, f) ==
    LET pages == Pages(data_values, page_size)
    IN  IF ss.status # "ok" THEN ss
        ELSE ExecuteAllAutocommit(ss, [i \in 1..Len(pages) |->
                                         Stmt("INSERT", table_name, pages[i])], f)

\* execute_values(cur, INSERT_QUERY, data_values, page_size): one
\* cur.execute per page, all in the connection's open transaction
ExecuteValues(ss, table_name, data_values, page_size, f) ==
    LET pages == Pages(data_values, page_size)
    IN  IF ss.status # "ok" THEN ss
        ELSE ExecuteAll(ss, [i \in 1..Len(pages) |-> Stmt("INSERT", table_name, pages[i])], f)

\* insert_dataframe without the missing-columns check, inserting the
\* columns the DataFrame has
InsertOutcomeNoValidation(df, table_name, batch_size, f) ==
    LET s1 == Execute(Session, Stmt("SELECT columns", table_name, << >>), f)
        db_columns == ColumnNames(Lookup(s1.work, table_name))
        padded == [r \in 1..Len(df.rows) |->
                     [c \in 1..Len(db_columns) |->
                        IF db_columns[c] \in SeqToSet(df.columns)
                        THEN df.rows[r][IndexOf(df.columns, db_columns[c])]
                        ELSE "NULL"]]
        s2 == ExecuteValues(s1, table_name, padded, batch_size, f)
        s3 == CommitStep(s2, f)
    IN  IF DfEmpty(df) THEN Untouched(Result("int", 0))
        ELSE IF table_name = "" THEN Untouched(RNone)
        ELSE IF NeedsConnect /\ ~reachable THEN ConnectFailed(RNone)
        ELSE IF s1.status = "ok" /\ db_columns = << >>
        THEN Returned(s1, f, RNone, RNone, "handler")
        ELSE Returned(s3, f, Result("int", s3.rowcount), RNone, "handler")

\* insert_dataframe(df, table_name, batch_size)
InsertOutcome(df, table_name, batch_size, f) ==
    LET s1 == Execute(Session, Stmt("SELECT columns", table_name, << >>), f)
        db_columns == ColumnNames(Lookup(s1.work, table_name))
        df_columns_set == SeqToSet(df.columns)
        missing_cols == {c \in SeqToSet(db_columns) : c \notin df_columns_set}
        s2 == ExecuteValues(s1, table_name, Project(df, db_columns), batch_size, f)
        s3 == CommitStep(s2, f)
    IN  IF DfEmpty(df) THEN Untouched(Result("int", 0))
        ELSE IF table_name = "" THEN Untouched(RNone)
        ELSE IF NeedsConnect /\ ~reachable THEN ConnectFailed(RNone)
        ELSE IF s1.status = "ok" /\ db_columns = << >>
        THEN Returned(s1, f, RNone, RNone, "handler")
        ELSE IF s1.status = "ok" /\ missing_cols # {}
        THEN Returned(s1, f, RNone, RNone, "handler")
        ELSE Returned(s3, f, Result("int", s3.rowcount), RNone, "handler")

DropOutcomeNoCommit(table_name, cascade, f) ==
    LET DROP_QUERY == IF cascade THEN "DROP TABLE IF EXISTS CASCADE"
                      ELSE "DROP TABLE IF EXISTS RESTRICT"
        s1 == Execute(Session, Stmt(DROP_QUERY, table_name, << >>), f)
    IN  IF table_name = "" THEN Untouched(RFalse)
        ELSE IF NeedsConnect /\ ~reachable THEN ConnectFailed(RFalse)
        ELSE Returned(s1, f, RTrue, RFalse, "handler")

\* drop_table(table_name, cascade)
DropOutcome(table_name, cascade, f) ==
    LET DROP_QUERY == IF cascade THEN "DROP TABLE IF EXISTS CASCADE"
                      ELSE "DROP TABLE IF EXISTS RESTRICT"
        s1 == Execute(Session, Stmt(DROP_QUERY, table_name, << >>), f)
        s2 == CommitStep(s1, f)
    IN  IF table_name = "" THEN Untouched(RFalse)
        ELSE IF NeedsConnect /\ ~reachable THEN ConnectFailed(RFalse)
        ELSE Returned(s2, f, RTrue, RFalse, "handler")

TruncateOutcomeNoCommit(table_name, f) ==
    LET s1 == Execute(Session, Stmt("TRUNCATE", table_name, << >>), f)
    IN  IF table_name = "" THEN Untouched(RFalse)
        ELSE IF NeedsConnect /\ ~reachable THEN ConnectFailed(RFalse)
        ELSE Returned(s1, f, RTrue, RFalse, "handler")

\* truncate_table(table_name): identity sequences cannot be created through
\* the adapter, so restart_identity has no effect on the tables modelled
TruncateOutcome(table_name, f) ==
    LET s1 == Execute(Session, Stmt("TRUNCATE", table_name, << >>), f)
        s2 == CommitStep(s1, f)
    IN  IF table_name = "" THEN Untouched(RFalse)
        ELSE IF NeedsConnect /\ ~reachable THEN ConnectFailed(RFalse)
        ELSE Returned(s2, f, RTrue, RFalse, "handler")

\* get_all_tables()
GetAllTablesOutcome(f) ==
    LET s1 == Execute(Session, Stmt("SELECT tables", "", << >>), f)
        tables == {t \in TableNames : s1.work[t].exists}
    IN  IF NeedsConnect /\ ~reachable THEN ConnectFailed(RNone)
        ELSE Returned(s1, f, Result("list", Cardinality(tables)), RNone, "nobody")

\* the 'columns' entry of get_table_info's dict
ColumnInfo(t) == t.columns

\* get_table_info(table_name)
GetTableInfoOutcome(table_name, f) ==
    LET s1 == Execute(Session, Stmt("SELECT columns", table_name, << >>), f)
        s2 == Execute(s1, Stmt("SELECT COUNT", table_name, << >>), f)
        row_count == Len(Lookup(s2.work, table_name).rows)
    IN  IF table_name = "" THEN Untouched(RNone)
        ELSE IF NeedsConnect /\ ~reachable THEN ConnectFailed(RNone)
        ELSE Returned(s2, f, Result("info", row_count), RNone, "nobody")

Min(a, b) == IF a < b THEN a ELSE b

\* table_to_dataframe(table_name, limit) through query_to_dataframe;
\* limit 0 stands for None (both leave limit_clause empty)
TableToDataframeOutcome(table_name, limit, f) ==
    LET s1 == Execute(Session, Stmt("SELECT *", table_name, << >>), f)
        stored == Len(Lookup(s1.work, table_name).rows)
        n == IF limit # 0 THEN Min(limit, stored) ELSE stored
    IN  IF table_name = "" THEN Untouched(RNone)
        ELSE IF NeedsConnect /\ ~reachable THEN ConnectFailed(RNone)
        ELSE Returned(s1, f, Result("frame", n), RNone, "pandas")

\* table_exists(table_name)
TableExistsOutcome(table_name, f) ==
    LET s1 == Execute(Session, Stmt("SELECT EXISTS", table_name, << >>), f)
        exists == TableFound(s1, table_name)
    IN  IF NeedsConnect /\ ~reachable THEN ConnectFailed(RFalse)
        ELSE Returned(s1, f, IF exists THEN RTrue ELSE RFalse, RFalse, "nobody")

\* --------------------------------------------------------------- actions
IfExists == {"skip", "replace", "fail"}
PrimaryKeys == {"", "id"}      \* "" stands for primary_key=None

Succeeded(r) == r.tag \notin {"False", "None", "raised"}

\* the state after a call with outcome out
Call(op, dfn, table_name, policy, out, info, before, rt, nowDropped) ==
    /\ db' = out.db
    /\ connection' = out.conn
    /\ txn' = out.tx
    /\ pre' = db
    /\ dropped' = nowDropped
    /\ last' = [op |-> op, df |-> dfn, table |-> table_name, policy |-> policy,
                result |-> out.result, exc |-> out.exc,
                fault |-> out.fault, sent |-> out.sent,
                connected |-> out.connected, info |-> info,
                before |-> before, rt |-> rt]
    /\ UNCHANGED <<reachable, leaked, unreleased, dtype_str, pg_type>>

\* The operations, with the fault drawn from F and the arguments from the
\* sets of D.
CreateTableFromDataframeOn(F, D) ==
    \E dfn \in D.schemas, table_name \in D.created,
       primary_key \in D.keys, if_exists \in D.policies, f \in F :
        LET out == CreateTableOutcome(DF(dfn), table_name, primary_key, if_exists, f)
            fresh == out.result = RTrue /\ ~Lookup(db, table_name).exists
        IN  Call("create_table_from_dataframe", "", table_name, if_exists, out,
                 << >>, NoBefore,
                 IF fresh THEN [stage |-> 1, df |-> dfn] ELSE NoRoundTrip,
                 IF out.result = RTrue THEN dropped \ {table_name} ELSE dropped)

InsertDataframeOn(F, D) ==
    \E dfn \in D.frames, table_name \in D.names,
       batch_size \in D.batches, f \in F :
        LET out == InsertOutcome(DF(dfn), table_name, batch_size, f)
            second == /\ last.op = "create_table_from_dataframe"
                      /\ last.rt.stage = 1
                      /\ SameSchema(DF(last.rt.df), DF(dfn))
                      /\ last.table = table_name
                      /\ Succeeded(out.result)
        IN  /\ Len(Lookup(db, table_name).rows) + DfLen(DF(dfn)) <= MaxRows
            /\ Call("insert_dataframe", dfn, table_name, "", out,
                    << >>, NoBefore,
                    IF second THEN [stage |-> 2, df |-> dfn] ELSE NoRoundTrip,
                    dropped)

DropTableOn(F, D) ==
    \E table_name \in D.names, cascade \in D.cascades, f \in F :
        LET out == DropOutcome(table_name, cascade, f)
        IN  Call("drop_table", "", table_name, "", out, << >>, NoBefore, NoRoundTrip,
                 IF out.result = RTrue THEN dropped \cup {table_name} ELSE dropped)

TruncateTableOn(F, D) ==
    \E table_name \in D.names, f \in F :
        LET out == TruncateOutcome(table_name, f)
        IN  Call("truncate_table", "", table_name, "", out, << >>,
                 [set |-> TRUE,
                  columns |-> ColumnInfo(Lookup(db, table_name)),
                  nrows |-> Len(Lookup(db, table_name).rows)],
                 NoRoundTrip, dropped)

GetAllTablesOn(F, D) ==
    \E f \in F :
        Call("get_all_tables", "", "", "", GetAllTablesOutcome(f),
             << >>, NoBefore, NoRoundTrip, dropped)

GetTableInfoOn(F, D) ==
    \E table_name \in D.names, f \in F :
        LET out == GetTableInfoOutcome(table_name, f)
        IN  Call("get_table_info", "", table_name, "", out,
                 IF out.result.tag = "info"
                 THEN ColumnInfo(Lookup(out.db, table_name)) ELSE << >>,
                 IF last.op = "truncate_table" /\ last.result = RTrue
                    /\ last.table = table_name
                 THEN last.before ELSE NoBefore,
                 NoRoundTrip, dropped)

TableToDataframeOn(F, D) ==
    \E table_name \in D.names, limit \in D.limits, f \in F :
        LET out == TableToDataframeOutcome(table_name, limit, f)
            third == /\ last.op = "insert_dataframe"
                     /\ last.rt.stage = 2
                     /\ last.table = table_name
                     /\ limit = 0
                     /\ out.fault = "none"
        IN  Call("table_to_dataframe", "", table_name, "", out, << >>, NoBefore,
                 IF third THEN [stage |-> 3, df |-> last.rt.df] ELSE NoRoundTrip,
                 dropped)

TableExistsOn(F, D) ==
    \E table_name \in D.names, f \in F :
        Call("table_exists", "", table_name, "", TableExistsOutcome(table_name, f),
             << >>, NoBefore, NoRoundTrip, dropped)

\* the arguments of Spec and SpecNoFault
AllInputs ==
    [schemas |-> SchemaFrames, frames |-> DataFrameNames,
     created |-> CreateArgs, names |-> NameArgs,
     keys |-> PrimaryKeys, policies |-> IfExists,
     batches |-> 1..MaxBatch, cascades |-> BOOLEAN, limits |-> 0..MaxLimit]

CreateTableFromDataframeCall(F) == CreateTableFromDataframeOn(F, AllInputs)
InsertDataframeCall(F) == InsertDataframeOn(F, AllInputs)
DropTableCall(F) == DropTableOn(F, AllInputs)
TruncateTableCall(F) == TruncateTableOn(F, AllInputs)
GetAllTablesCall(F) == GetAllTablesOn(F, AllInputs)
GetTableInfoCall(F) == GetTableInfoOn(F, AllInputs)
TableToDataframeCall(F) == TableToDataframeOn(F, AllInputs)
TableExistsCall(F) == TableExistsOn(F, AllInputs)

\* connect(), also __enter__: a new connection replaces self.connection
\* without closing the one it referenced.  Nothing in the adapter closes the
\* replaced connection: it stays open (kept) unless the runtime finalises
\* the unreferenced object, which the code does not control.
Connect ==
    \E kept \in BOOLEAN :
        /\ kept => connection = "open" /\ reachable /\ leaked < MaxLeaked
        /\ connection' = IF reachable THEN "open" ELSE connection
        /\ txn' = IF reachable THEN "idle" ELSE txn
        /\ leaked' = IF kept THEN leaked + 1 ELSE leaked
        /\ last' = [NoCall EXCEPT !.op = "connect", !.connected = TRUE,
                                  !.result = IF reachable THEN RTrue ELSE RFalse,
                                  !.exc = IF reachable THEN "none" ELSE "connect"]
        /\ pre' = db
        /\ UNCHANGED <<db, reachable, unreleased, dropped, dtype_str, pg_type>>

\* disconnect(), also __exit__
Disconnect ==
    /\ connection' = "None"
    /\ txn' = "idle"
    /\ last' = [NoCall EXCEPT !.op = "disconnect"]
    /\ pre' = db
    /\ UNCHANGED <<db, reachable, leaked, unreleased, dropped, dtype_str, pg_type>>

\* the environment: the store stops or starts accepting connections
StoreDown ==
    /\ reachable
    /\ reachable' = FALSE
    /\ UNCHANGED <<db, connection, txn, leaked, unreleased, last, pre, dropped,
                   dtype_str, pg_type>>

StoreUp ==
    /\ ~reachable
    /\ reachable' = TRUE
    /\ UNCHANGED <<db, connection, txn, leaked, unreleased, last, pre, dropped,
                   dtype_str, pg_type>>

\* the operations under statement faults only
CreateTableFromDataframe == CreateTableFromDataframeCall(StatementFaults)
InsertDataframe == InsertDataframeCall(StatementFaults)
DropTable == DropTableCall(StatementFaults)
TruncateTable == TruncateTableCall(StatementFaults)
GetAllTables == GetAllTablesCall(StatementFaults)
GetTableInfo == GetTableInfoCall(StatementFaults)
TableToDataframe == TableToDataframeCall(StatementFaults)
TableExists == TableExistsCall(StatementFaults)
\* connect() on an adapter that holds no open connection (__enter__ of a
\* with block over a new adapter)
Enter == connection # "open" /\ Connect

\* Spec: the store stays reachable, connections do not break, and connect()
\* is not called over an open connection.
Next ==
    \/ CreateTableFromDataframe
    \/ InsertDataframe
    \/ DropTable
    \/ TruncateTable
    \/ GetAllTables
    \/ GetTableInfo
    \/ TableToDataframe
    \/ TableExists
    \/ Enter
    \/ Disconnect

Spec == Init /\ [][Next]_vars

\* SpecNoFault: as Spec, and the store rejects a statement only for what
\* the statement is (a missing table, a duplicate key, an aborted
\* transaction): every failure is the program's own doing.
CreateTableFromDataframeOk == CreateTableFromDataframeCall({NoFault})
InsertDataframeOk == InsertDataframeCall({NoFault})
DropTableOk == DropTableCall({NoFault})
TruncateTableOk == TruncateTableCall({NoFault})
GetAllTablesOk == GetAllTablesCall({NoFault})
GetTableInfoOk == GetTableInfoCall({NoFault})
TableToDataframeOk == TableToDataframeCall({NoFault})
TableExistsOk == TableExistsCall({NoFault})

NextNoFault ==
    \/ CreateTableFromDataframeOk
    \/ InsertDataframeOk
    \/ DropTableOk
    \/ TruncateTableOk
    \/ GetAllTablesOk
    \/ GetTableInfoOk
    \/ TableToDataframeOk
    \/ TableExistsOk
    \/ Enter
    \/ Disconnect

SpecNoFault == Init /\ [][NextNoFault]_vars

\* ------------------------------------------------ lifecycle specification
\* the arguments of SpecLifecycle: one DataFrame, one live table, one name
\* that no table has
LifecycleInputs ==
    [schemas |-> {"users"}, frames |-> {"users"},
     created |-> TableNames, names |-> TableNames \cup {"ghost"},
     keys |-> {""}, policies |-> IfExists,
     batches |-> {1}, cascades |-> {FALSE}, limits |-> {0}]

\* the operations when the connection may also break under a statement
CreateTableFromDataframeAny == CreateTableFromDataframeOn(Faults, LifecycleInputs)
InsertDataframeAny == InsertDataframeOn(Faults, LifecycleInputs)
DropTableAny == DropTableOn(Faults, LifecycleInputs)
TruncateTableAny == TruncateTableOn(Faults, LifecycleInputs)
GetAllTablesAny == GetAllTablesOn(Faults, LifecycleInputs)
GetTableInfoAny == GetTableInfoOn(Faults, LifecycleInputs)
TableToDataframeAny == TableToDataframeOn(Faults, LifecycleInputs)
TableExistsAny == TableExistsOn(Faults, LifecycleInputs)

\* batch_size of insert_dataframe when the caller gives none
DefaultBatchSize == 1000

StandaloneOps ==
    {"module.create_table_from_dataframe", "module.insert_dataframe_to_table",
     "module.drop_table", "module.clear_table_data"}

\* A module-level function: loader = PostgreSQLDataLoader(...); return
\* loader.<method>(...).  The loader is new, so the method runs as on an
\* adapter whose connection is None (the call is modelled in the states
\* where the adapter of the model holds none), and the function returns
\* without disconnect(): the connection the loader opened stays open
\* (kept) unless the runtime finalises the unreferenced loader.
Standalone(op, dfn, table_name, out, nowDropped) ==
    \E kept \in BOOLEAN :
        /\ connection = "None"
        /\ kept => out.conn = "open" /\ unreleased < MaxLeaked
        /\ db' = out.db
        /\ connection' = "None"
        /\ txn' = "idle"
        /\ unreleased' = IF kept THEN unreleased + 1 ELSE unreleased
        /\ pre' = db
        /\ dropped' = nowDropped
        /\ last' = [NoCall EXCEPT !.op = op, !.df = dfn, !.table = table_name,
                                  !.result = out.result, !.exc = out.exc,
                                  !.fault = out.fault, !.sent = out.sent,
                                  !.connected = out.connected]
        /\ UNCHANGED <<reachable, leaked, dtype_str, pg_type>>

StandaloneCreateTableFromDataframe ==
    \E dfn \in LifecycleInputs.schemas, table_name \in LifecycleInputs.created,
       primary_key \in LifecycleInputs.keys, f \in Faults :
        LET out == CreateTableOutcome(DF(dfn), table_name, primary_key, "skip", f)
        IN  Standalone("module.create_table_from_dataframe", "", table_name, out,
                       IF out.result = RTrue THEN dropped \ {table_name} ELSE dropped)

InsertDataframeToTable ==
    \E dfn \in LifecycleInputs.frames, table_name \in LifecycleInputs.names,
       f \in Faults :
        /\ Len(Lookup(db, table_name).rows) + DfLen(DF(dfn)) <= MaxRows
        /\ Standalone("module.insert_dataframe_to_table", dfn, table_name,
                      InsertOutcome(DF(dfn), table_name, DefaultBatchSize, f), dropped)

StandaloneDropTable ==
    \E table_name \in LifecycleInputs.names, cascade \in LifecycleInputs.cascades,
       f \in Faults :
        LET out == DropOutcome(table_name, cascade, f)
        IN  Standalone("module.drop_table", "", table_name, out,
                       IF out.result = RTrue THEN dropped \cup {table_name} ELSE dropped)

ClearTableData ==
    \E table_name \in LifecycleInputs.names, f \in Faults :
        Standalone("module.clear_table_data", "", table_name,
                   TruncateOutcome(table_name, f), dropped)

\* SpecLifecycle: the store may stop accepting connections, a connection
\* may break, connect() may be called at any time, and the module-level
\* functions are used next to the adapter.
NextLifecycle ==
    \/ CreateTableFromDataframeAny
    \/ InsertDataframeAny
    \/ DropTableAny
    \/ TruncateTableAny
    \/ GetAllTablesAny
    \/ GetTableInfoAny
    \/ TableToDataframeAny
    \/ TableExistsAny
    \/ StandaloneCreateTableFromDataframe
    \/ InsertDataframeToTable
    \/ StandaloneDropTable
    \/ ClearTableData
    \/ Connect
    \/ Disconnect
    \/ StoreDown
    \/ StoreUp

SpecLifecycle == Init /\ [][NextLifecycle]_vars

\* ------------------------------------------------ dtype specification
\* pieces of dtype strings: the tags of the mapping, parts of tags, and
\* what pandas puts around them (uint64, datetime64, ...)
Fragments ==
    {<<"i", "n", "t">>, <<"f", "l", "o", "a", "t">>, <<"b", "o", "o", "l">>,
     <<"d", "a", "t", "e">>, <<"t", "i", "m", "e">>, <<"6", "4">>, <<"u">>,
     <<"i", "n">>, <<"t">>, <<"o", "b", "j", "e", "c", "t">>}

\* the strings made of at most n fragments
RECURSIVE Strings(_)
Strings(n) ==
    IF n = 0 THEN {<< >>}
    ELSE Strings(n - 1) \cup {s \o f : s \in Strings(n - 1), f \in Fragments}

DtypeStrings == Strings(MaxParts) \ {<< >>}

InitDtype ==
    /\ dtype_str \in DtypeStrings
    /\ pg_type = ""
    /\ db = [t \in TableNames |-> Absent]
    /\ connection = "None"
    /\ txn = "idle"
    /\ reachable = TRUE
    /\ leaked = 0
    /\ unreleased = 0
    /\ last = NoCall
    /\ pre = [t \in TableNames |-> Absent]
    /\ dropped = {}

\* pg_type = self._map_dtype_to_postgres(dtype)
MapDtype ==
    /\ pg_type' = MapDtypeToPostgres(dtype_str)
    /\ UNCHANGED <<db, connection, txn, reachable, leaked, unreleased, last, pre,
                   dropped, dtype_str>>

\* SpecDtype: _map_dtype_to_postgres applied to one dtype string
SpecDtype == InitDtype /\ [][MapDtype]_vars

TypeOK ==
    /\ connection \in {"None", "open", "closed"}
    /\ txn \in {"idle", "intrans", "aborted"}
    /\ leaked \in 0..MaxLeaked
    /\ unreleased \in 0..MaxLeaked
    /\ \A t \in TableNames : Len(db[t].rows) <= MaxRows

\* ----------------------------------------------------------------- claims
IsInsert == last.op = "insert_dataframe"
IsCreate == last.op = "create_table_from_dataframe"
Before(t) == Lookup(pre, t)
Now(t) == Lookup(db, t)

\* an empty DataFrame, as the claims mean it: no rows, or no columns
EmptyFrame(df) == Len(df.rows) = 0 \/ Len(df.columns) = 0

\* the columns of table t that DataFrame df lacks
MissingColumns(df, t) == SeqToSet(ColumnNames(t)) \ SeqToSet(df.columns)

\* C1: insert_dataframe of a non-empty DataFrame that lacks a column of the
\* live table returns None and leaves the stored rows as they were.
C1_MissingColumnsRejected ==
    (/\ IsInsert
     /\ ~EmptyFrame(DF(last.df))
     /\ Before(last.table).exists
     /\ MissingColumns(DF(last.df), Before(last.table)) # {})
    => (last.result = RNone /\ db = pre)

C1_Witness ==
    /\ IsInsert
    /\ ~EmptyFrame(DF(last.df))
    /\ Before(last.table).exists
    /\ MissingColumns(DF(last.df), Before(last.table)) # {}
    /\ last.exc = "none"
    /\ last.sent = <<"SELECT columns">>
    /\ Len(Now(last.table).rows) > 0

\* C2: insert_dataframe is all-or-nothing for every batch_size: a call that
\* succeeds has appended every row of the DataFrame, and a call that fails,
\* at whatever page, leaves the tables as they were before the call.
C2_InsertAllOrNothing ==
    IsInsert =>
        /\ (Succeeded(last.result) /\ ~EmptyFrame(DF(last.df))) =>
              /\ Before(last.table).exists
              /\ db = [pre EXCEPT ![last.table].rows =
                         @ \o Project(DF(last.df), ColumnNames(Before(last.table)))]
        /\ (~Succeeded(last.result) \/ EmptyFrame(DF(last.df))) => db = pre

\* a later page was rejected after an earlier page had been accepted
C2_Witness ==
    /\ IsInsert
    /\ last.exc = "error"
    /\ Len(last.sent) >= 3
    /\ last.sent[Len(last.sent) - 1] = "INSERT"
    /\ last.sent[Len(last.sent)] = "INSERT"
    /\ db = pre

\* C3: a successful insert_dataframe returns the number of rows of the
\* DataFrame, for every batch_size.
C3_ReturnsRowsInserted ==
    (IsInsert /\ Succeeded(last.result)) =>
        last.result = Result("int", IF EmptyFrame(DF(last.df)) THEN 0
                                    ELSE DfLen(DF(last.df)))

\* C4: insert_dataframe of an empty DataFrame returns 0 for every table
\* name, opens no connection, sends no statement and changes nothing.
C4_EmptyInsertIsNoOp ==
    (IsInsert /\ EmptyFrame(DF(last.df))) =>
        /\ last.result = Result("int", 0)
        /\ ~last.connected
        /\ last.sent = << >>
        /\ db = pre

C4_Witness ==
    /\ IsInsert
    /\ DfLen(DF(last.df)) = 0
    /\ last.table = ""
    /\ connection = "None"
    /\ last.result = Result("int", 0)

\* C5: create_table_from_dataframe with if_exists='skip' on a table that
\* already exists returns True and leaves its schema and rows unchanged
\* (so calling it twice in a row is idempotent).
C5_SkipIsIdempotent ==
    (IsCreate /\ last.policy = "skip" /\ Before(last.table).exists)
    => (last.result = RTrue /\ db = pre)

\* C6: create_table_from_dataframe with if_exists='fail' on an existing
\* table returns False, sends no DROP or CREATE, and changes nothing.
C6_FailPolicyNoSideEffect ==
    (IsCreate /\ last.policy = "fail" /\ Before(last.table).exists) =>
        /\ last.result = RFalse
        /\ db = pre
        /\ \A i \in 1..Len(last.sent) :
              last.sent[i] \notin {"DROP TABLE IF EXISTS CASCADE",
                                   "DROP TABLE IF EXISTS RESTRICT",
                                   "CREATE TABLE", "CREATE TABLE IF NOT EXISTS"}

C6_Witness ==
    /\ IsCreate
    /\ last.policy = "fail"
    /\ Before(last.table).exists
    /\ Len(Before(last.table).rows) > 0
    /\ last.exc = "none"
    /\ last.sent = <<"SELECT EXISTS">>

\* C7: whenever create_table_from_dataframe returns False the tables of the
\* store are those before the call, under every policy; in particular a
\* DROP sent under 'replace' is rolled back when the CREATE fails.
C7_CreateAllOrNothing ==
    (IsCreate /\ last.result = RFalse) => db = pre

C7_Witness ==
    /\ IsCreate
    /\ last.policy = "replace"
    /\ last.result = RFalse
    /\ last.sent = <<"DROP TABLE IF EXISTS CASCADE", "CREATE TABLE">>
    /\ Len(Now(last.table).rows) > 0

RoundTripDone == last.op = "table_to_dataframe" /\ last.rt.stage = 3

\* C8 as stated: after create_table_from_dataframe(D, T) on a fresh T and
\* insert_dataframe(D, T) both succeed, table_to_dataframe(T) with no limit
\* returns len(D) rows, for every DataFrame D.
C8_RoundTripEveryDataFrame ==
    RoundTripDone => last.result = Result("frame", DfLen(DF(last.rt.df)))

\* C8 amended: ... for every DataFrame D that has at least one column.
C8_RoundTrip ==
    (RoundTripDone /\ Len(DF(last.rt.df).columns) > 0) =>
        last.result = Result("frame", DfLen(DF(last.rt.df)))

C8_Witness ==
    /\ RoundTripDone
    /\ DfLen(DF(last.rt.df)) > MaxBatch
    /\ last.result.tag = "frame"

\* C9: a successful truncate_table(T) leaves T with no rows and with the
\* columns it had, and a get_table_info(T) right after it reports
\* row_count 0 and the column list T had before the truncate.
C9_TruncateKeepsSchema ==
    /\ (last.op = "truncate_table" /\ last.result = RTrue) =>
          /\ Now(last.table).exists
          /\ Now(last.table).rows = << >>
          /\ Now(last.table).columns = Before(last.table).columns
    /\ (last.op = "get_table_info" /\ last.before.set /\ last.fault = "none") =>
          /\ last.result = Result("info", 0)
          /\ last.info = last.before.columns

C9_Witness ==
    /\ last.op = "get_table_info"
    /\ last.before.set
    /\ last.before.nrows > 0
    /\ Len(last.before.columns) > 0
    /\ last.result.tag = "info"

\* C10: once drop_table(T) has returned True, table_exists(T) returns False
\* until a later create_table_from_dataframe for T returns True.
C10_DroppedStaysAbsent ==
    /\ \A t \in dropped : ~Now(t).exists
    /\ (last.op = "table_exists" /\ last.table \in dropped) => last.result = RFalse

C10_Witness ==
    /\ last.op = "table_exists"
    /\ last.table \in dropped
    /\ last.table \in TableNames
    /\ last.exc = "none"
    /\ connection = "open"
    /\ last.connected

\* the public operations of the adapter
DataOps ==
    {"create_table_from_dataframe", "insert_dataframe", "drop_table",
     "truncate_table", "get_all_tables", "get_table_info",
     "table_to_dataframe", "table_exists"}
IsDataOp == last.op \in DataOps

\* C11: no public operation lets a fault escape: whatever the store does
\* (unreachable, a statement rejected, the connection lost in the middle of
\* the operation), the operation returns its sentinel value and does not
\* raise.
C11_NoFaultEscapes == IsDataOp => last.result # RRaised

\* C12: an operation that failed because the store rejected a statement
\* leaves no aborted transaction on the connection: the transaction is
\* rolled back before the operation returns.
C12_FailureRollsBack ==
    (IsDataOp /\ last.exc = "error") => txn # "aborted"

\* the operations that target one table and do not create it
AbsentTargetOps ==
    {"insert_dataframe", "truncate_table", "drop_table", "get_table_info",
     "table_to_dataframe"}

\* C13: a table-targeted operation (insert_dataframe of a non-empty
\* DataFrame, truncate_table, drop_table, get_table_info,
\* table_to_dataframe) on a table that does not exist reports failure
\* through its sentinel value and changes nothing in the store; for
\* insert_dataframe no INSERT is sent.
C13_AbsentTableReported ==
    (/\ last.op \in AbsentTargetOps
     /\ last.table # ""
     /\ ~Before(last.table).exists
     /\ IsInsert => ~EmptyFrame(DF(last.df)))
    => (/\ ~Succeeded(last.result)
        /\ db = pre
        /\ IsInsert => "INSERT" \notin SeqToSet(last.sent))

\* C14: an adapter instance has at most one open connection: no
\* connection it opened stays open once its connection attribute refers to
\* another connection or to None.
C14_AtMostOneOpenConnection == leaked = 0

\* C15: every connection an adapter opened is released at the end of the
\* calling scope: after the exit of a with block the connection attribute
\* is None, and when a module-level function returns, the connection its
\* loader opened is closed.
C15_ReleasedAtScopeExit ==
    /\ last.op = "disconnect" => connection = "None"
    /\ last.op \in StandaloneOps => unreleased = 0

\* C16: when an operation cannot establish a connection (on first use, or
\* on reconnect after the previous connection was closed), it returns its
\* sentinel value, sends nothing, and leaves the connection attribute
\* None.
C16_ConnectFailureLeavesUnset ==
    (IsDataOp /\ last.exc = "connect")
    => (/\ ~Succeeded(last.result)
        /\ last.sent = << >>
        /\ connection = "None")

\* an operation that returns at its argument checks, before
\* get_connection: an empty DataFrame for insert_dataframe, an empty table
\* name for the operations that check it
ArgumentsRejected(c) ==
    \/ c.op = "insert_dataframe" /\ EmptyFrame(DF(c.df))
    \/ c.op \in DataOps \ {"get_all_tables", "table_exists"} /\ c.table = ""

Connected == connection = "open"

ValueOf(df, r, c) ==
    df.rows[r][CHOOSE i \in 1..Len(df.columns) : df.columns[i] = c]

\* the rows of df cut to the columns of table t, in t's ordinal order
ExpectedRows(df, t) ==
    [r \in 1..Len(df.rows) |->
        [c \in 1..Len(t.columns) |-> ValueOf(df, r, t.columns[c].name)]]

\* insert_dataframe of a non-empty DataFrame whose columns are a superset
\* of the columns of the live table it names
SupersetInsert ==
    /\ IsInsert
    /\ ~EmptyFrame(DF(last.df))
    /\ Before(last.table).exists
    /\ MissingColumns(DF(last.df), Before(last.table)) = {}

\* C18 as stated: when the DataFrame's columns are a superset of table
\* T's columns, insert_dataframe succeeds and appends, for each DataFrame
\* row, exactly the values of T's columns in T's ordinal order; columns
\* that T lacks are dropped.
C18_SupersetInserted ==
    SupersetInsert
    => (/\ Succeeded(last.result)
        /\ Now(last.table).rows
             = Before(last.table).rows \o ExpectedRows(DF(last.df), Before(last.table)))

\* C18 amended: when the DataFrame's columns are a superset of the columns
\* of a table T that has at least one column, insert_dataframe either
\* succeeds and appends, for each DataFrame row, exactly the values of T's
\* columns in T's ordinal order (columns that T lacks are dropped), or the
\* store rejected one of its statements and it returns None with the store
\* unchanged.
C18_SupersetInsertedOrRejected ==
    (SupersetInsert /\ Before(last.table).columns # << >>)
    => IF Succeeded(last.result)
       THEN Now(last.table).rows
             = Before(last.table).rows \o ExpectedRows(DF(last.df), Before(last.table))
       ELSE last.result = RNone /\ last.exc = "error" /\ db = pre

\* a DataFrame with its columns in another order and one more column was
\* inserted into a table that had rows
C18_Witness ==
    /\ SupersetInsert
    /\ ColumnNames(Before(last.table)) # DF(last.df).columns
    /\ Before(last.table).rows # << >>
    /\ Succeeded(last.result)

\* the tags of the mapping table, in the order they are tried
T_int == <<"i", "n", "t">>
T_float == <<"f", "l", "o", "a", "t">>
T_bool == <<"b", "o", "o", "l">>
T_datetime == <<"d", "a", "t", "e", "t", "i", "m", "e">>
T_date == <<"d", "a", "t", "e">>

MappingTable ==
    << <<T_int, "INTEGER">>, <<T_float, "DOUBLE PRECISION">>, <<T_bool, "BOOLEAN">>,
       <<T_datetime, "TIMESTAMP">>, <<T_date, "DATE">> >>

\* string s has tag as a substring
HasTag(s, tag) ==
    \E i \in 1..Len(s) :
        i + Len(tag) - 1 <= Len(s) /\ SubSeq(s, i, i + Len(tag) - 1) = tag

\* the type of the first row of the table whose tag s has, else TEXT
FirstMatch(s) ==
    LET hits == {k \in 1..Len(MappingTable) : HasTag(s, MappingTable[k][1])}
    IN  IF hits = {} THEN "TEXT"
        ELSE MappingTable[CHOOSE k \in hits : \A h \in hits : k <= h][2]

Mapped == pg_type # ""

\* C19: _map_dtype_to_postgres returns, for every dtype string, the type
\* of the first matching row of the table int -> INTEGER, float -> DOUBLE
\* PRECISION, bool -> BOOLEAN, datetime -> TIMESTAMP, date -> DATE, else
\* TEXT; a string with "datetime" and no earlier tag maps to TIMESTAMP, not
\* DATE.
C19_FirstMatchTable ==
    Mapped =>
        /\ pg_type = FirstMatch(dtype_str)
        /\ (/\ HasTag(dtype_str, T_datetime)
            /\ ~HasTag(dtype_str, T_int)
            /\ ~HasTag(dtype_str, T_float)
            /\ ~HasTag(dtype_str, T_bool)) => pg_type = "TIMESTAMP"

\* a dtype string with "datetime" and more around it has been mapped
C19_Witness ==
    /\ Mapped
    /\ HasTag(dtype_str, T_datetime)
    /\ Len(dtype_str) > Len(T_datetime)
    /\ pg_type = "TIMESTAMP"

====
